---- MODULE Spec2Model ----
(***************************************************************************)
(* Model of the schema validator of src/validator.js (class Validator).   *)
(*                                                                         *)
(* A JavaScript value is a record of one fixed shape whose field k is the *)
(* runtime kind; a string is the sequence of its characters.  A schema is *)
(* a record with one field per keyword; a keyword that is absent from the *)
(* schema object (undefined) is the empty sequence, a keyword that is     *)
(* present is the one-element sequence holding its value.                 *)
(***************************************************************************)
EXTENDS Integers, Sequences, FiniteSets, TLC

VARIABLES _failed, _errors, schema, dataToValidate, returned, entry, probes, nCalls

vars == <<_failed, _errors, schema, dataToValidate, returned, entry, probes, nCalls>>

(***************************************************************************)
(* Bounds                                                                  *)
(***************************************************************************)
\* largest number among the values
MaxNum == 2
\* longest array of numbers among the values
MaxItems == 3
\* isValid calls made on one validator object before it is dropped
MaxCalls == 2

(***************************************************************************)
(* Values                                                                  *)
(***************************************************************************)
Num(n) == [k |-> "number", n |-> n, s |-> <<>>, b |-> FALSE, a |-> <<>>, o |-> <<>>]
Str(s) == [k |-> "string", n |-> 0, s |-> s, b |-> FALSE, a |-> <<>>, o |-> <<>>]
Bool(b) == [k |-> "boolean", n |-> 0, s |-> <<>>, b |-> b, a |-> <<>>, o |-> <<>>]
Arr(a) == [k |-> "array", n |-> 0, s |-> <<>>, b |-> FALSE, a |-> a, o |-> <<>>]
\* o is the sequence of the own properties [key, val], in insertion order
Obj(o) == [k |-> "object", n |-> 0, s |-> <<>>, b |-> FALSE, a |-> <<>>, o |-> o]
Null == [k |-> "null", n |-> 0, s |-> <<>>, b |-> FALSE, a |-> <<>>, o |-> <<>>]
Undefined == [k |-> "undefined", n |-> 0, s |-> <<>>, b |-> FALSE, a |-> <<>>, o |-> <<>>]
P(key, val) == [key |-> key, val |-> val]

\* JavaScript truthiness of a value (NaN is not among the values)
Truthy(v) ==
  CASE v.k = "number" -> v.n # 0
    [] v.k = "string" -> v.s # <<>>
    [] v.k = "boolean" -> v.b
    [] v.k \in {"null", "undefined"} -> FALSE
    [] OTHER -> TRUE

\* the property names of an array are its indices
IdxKey(i) == <<"0", "1", "2", "3", "4", "5">>[i + 1]

\* Object.keys(v) of an array or an object
Keys(v) ==
  IF v.k = "array" THEN [i \in 1..Len(v.a) |-> IdxKey(i - 1)]
  ELSE [i \in 1..Len(v.o) |-> v.o[i].key]

\* v[key]: undefined when v has no such property
Prop(v, key) ==
  IF v.k = "array"
  THEN IF \E i \in 1..Len(v.a) : IdxKey(i - 1) = key
       THEN v.a[CHOOSE i \in 1..Len(v.a) : IdxKey(i - 1) = key]
       ELSE Undefined
  ELSE IF \E i \in 1..Len(v.o) : v.o[i].key = key
       THEN v.o[CHOOSE i \in 1..Len(v.o) : v.o[i].key = key].val
       ELSE Undefined

(***************************************************************************)
(* Schemas                                                                 *)
(***************************************************************************)
\* the schema {}: every keyword absent
Empty ==
  [type |-> <<>>, nullable |-> <<>>, anyOf |-> <<>>, oneOf |-> <<>>,
   minimum |-> <<>>, maximum |-> <<>>, enum |-> <<>>,
   minLength |-> <<>>, maxLength |-> <<>>, pattern |-> <<>>, format |-> <<>>,
   minItems |-> <<>>, maxItems |-> <<>>, uniqueItems |-> <<>>, contains |-> <<>>,
   items |-> <<>>,
   minProperties |-> <<>>, maxProperties |-> <<>>, required |-> <<>>,
   properties |-> <<>>, additionalProperties |-> <<>>]

\* truthiness of an optional boolean keyword
Flag(opt) == opt # <<>> /\ opt[1]

(***************************************************************************)
(* The validator                                                           *)
(***************************************************************************)
\* this._known_types
KnownTypes == {"number", "boolean", "string", "array", "object"}

\* the keys of this._handlers, as runtime kinds ([object Number] is "number")
HandledKinds == {"object", "array", "number", "boolean", "string"}

\* an error argument that is undefined
NoError == ""

\* the state of a validator object right after its constructor
\* (probes: the nested isValid calls observed so far, a history of the run)
NewValidator == [failed |-> FALSE, errors |-> <<>>, probes |-> {}]

pushError(st, err) == [st EXCEPT !.errors = Append(@, err)]

\* fail without line 36: the error is pushed, the flag is left alone
fail_flagless(st, withErr) == IF withErr # NoError THEN pushError(st, withErr) ELSE st

fail(st, withErr) ==
  [(IF withErr # NoError THEN pushError(st, withErr) ELSE st) EXCEPT !.failed = TRUE]

isObject(obj) == obj.k \in {"array", "object"}

\* a === b for two values that are not both objects
StrictEq(a, b) == ~isObject(a) /\ ~isObject(b) /\ a = b

RECURSIVE compareValues(_, _)
compareValues(a, b) ==
  IF isObject(a) /\ isObject(b)
  THEN LET aKeys == Keys(a)
           bKeys == Keys(b)
       IN IF Len(aKeys) # Len(bKeys) THEN FALSE
          ELSE \A i \in 1..Len(aKeys) :
                 LET aVal == Prop(a, aKeys[i])
                     bVal == Prop(b, aKeys[i])
                     bothObjects == isObject(aVal) /\ isObject(bVal)
                 IN ~((bothObjects /\ ~compareValues(aVal, bVal))
                      \/ (~bothObjects /\ ~StrictEq(aVal, bVal)))
  ELSE StrictEq(a, b)

\* testProperty for a predicate without side effects, given its result
testProperty(st, prop, holds, err) ==
  IF prop # <<>> /\ ~holds THEN fail(st, err) ELSE st

isValidType(st, given, expected) ==
  IF given # <<expected>> THEN fail(st, "Type is incorrect") ELSE st

\* Array.prototype.includes of a primitive in an enum list
Includes(list, v) == \E i \in 1..Len(list) : StrictEq(list[i], v)

\* isValidNumber returning right after a failed type check
isValidNumber_typeFirst(st, sch, number) ==
  IF sch.type # <<"number">> THEN fail(st, "Type is incorrect")
  ELSE LET s2 == testProperty(st, sch.minimum, sch.minimum # <<>> /\ sch.minimum[1] <= number.n,
                              "Value is less than it can be")
           s3 == testProperty(s2, sch.maximum, sch.maximum # <<>> /\ sch.maximum[1] >= number.n,
                              "Value is greater than it can be")
       IN testProperty(s3, sch.enum, sch.enum # <<>> /\ Includes(sch.enum[1], number),
                       "The enum does not support value")

isValidNumber(st, sch, number) ==
  LET s1 == isValidType(st, sch.type, "number")
      s2 == testProperty(s1, sch.minimum, sch.minimum # <<>> /\ sch.minimum[1] <= number.n,
                         "Value is less than it can be")
      s3 == testProperty(s2, sch.maximum, sch.maximum # <<>> /\ sch.maximum[1] >= number.n,
                         "Value is greater than it can be")
  IN testProperty(s3, sch.enum, sch.enum # <<>> /\ Includes(sch.enum[1], number),
                  "The enum does not support value")

Digits == {"0", "1", "2", "3", "4", "5", "6", "7", "8", "9"}

\* this._string_patterns
\* email: str.includes('@');  date: /\d{4}-\d{2}-\d{2}$/.test(str), which is
\* anchored at the end of the string only.  The schemas name no other format
\* (line 92 throws a TypeError for a name that is not in the table).
StringPattern(name, str) ==
  IF name = "email" THEN \E i \in 1..Len(str) : str[i] = "@"
  ELSE /\ Len(str) >= 10
       /\ LET t == SubSeq(str, Len(str) - 9, Len(str))
          IN /\ \A i \in {1, 2, 3, 4, 6, 7, 9, 10} : t[i] \in Digits
             /\ t[5] = "-"
             /\ t[8] = "-"

\* RegExp.prototype.test for the two patterns of the schemas: /^a/ and /b$/
PatternTest(p, str) ==
  IF p = "^a" THEN Len(str) >= 1 /\ str[1] = "a"
  ELSE Len(str) >= 1 /\ str[Len(str)] = "b"

isValidString(st, sch, str) ==
  LET s1 == isValidType(st, sch.type, "string")
      s2 == testProperty(s1, sch.minLength, sch.minLength # <<>> /\ sch.minLength[1] <= Len(str.s),
                         "Too short string")
      s3 == testProperty(s2, sch.maxLength, sch.maxLength # <<>> /\ sch.maxLength[1] >= Len(str.s),
                         "Too long string")
      s4 == testProperty(s3, sch.pattern, sch.pattern # <<>> /\ PatternTest(sch.pattern[1], str.s),
                         "String does not match pattern")
      s5 == testProperty(s4, sch.enum, sch.enum # <<>> /\ Includes(sch.enum[1], str),
                         "The enum does not support value")
  IN testProperty(s5, sch.format, sch.format # <<>> /\ StringPattern(sch.format[1], str.s),
                  "Format of string is not valid")

isValidBoolean(st, sch, bool) == isValidType(st, sch.type, "boolean")

isUniqueArray(arr) ==
  \A i \in 1..Len(arr) : \A j \in 1..Len(arr) :
    ~(i # j /\ compareValues(arr[i], arr[j]))

(***************************************************************************)
(* Nested isValid calls.  A probe records one nested call: where it was   *)
(* made, its arguments, what it returned, and the calling validator's     *)
(* flag and error count right before and right after it.                  *)
(***************************************************************************)
Snapshot(st) == [failed |-> st.failed, nerrors |-> Len(st.errors)]

Probe(site, sch, v, ok, pre, post) ==
  [site |-> site, schema |-> sch, value |-> v, ok |-> ok, pre |-> pre, post |-> post]

Observe(st, ps) == [st EXCEPT !.probes = @ \cup ps]

\* `if (p.type)`: a type that is present and not the empty string
HasType(sch) == sch.type # <<>> /\ sch.type[1] # ""

RECURSIVE isValid(_, _, _), filterSchemas(_, _), itemsEvery(_, _, _, _),
          propertiesEvery(_, _, _, _), isValidArray(_, _, _), isValidObject(_, _, _)

\* new Validator().isValid(s, data)
FreshIsValid(s, data) == ~isValid(NewValidator, s, data).failed

filterSchemas(schemas, data) == SelectSeq(schemas, LAMBDA s : FreshIsValid(s, data))

\* arr.every(item => this.isValid(p, item)) from index i on: the calls run on
\* the calling validator and stop at the first one that returns false
itemsEvery(st, p, arr, i) ==
  IF i > Len(arr) THEN [st |-> st, ok |-> TRUE]
  ELSE LET s1 == isValid(st, p, arr[i])
           s2 == Observe(s1, {Probe("item", p, arr[i], ~s1.failed, Snapshot(st), Snapshot(s1))})
       IN IF s1.failed THEN [st |-> s2, ok |-> FALSE]
          ELSE itemsEvery(s2, p, arr, i + 1)

\* Object.keys(p).some(scheme => new Validator().isValid(p[scheme], item))
someAlternative(alts, item) == \E j \in 1..Len(alts) : FreshIsValid(alts[j], item)

\* arr.every(item => Object.keys(p).some(...)), for a collection of schemas
everyItemSomeAlternative(alts, arr) ==
  \A i \in 1..Len(arr) : someAlternative(alts, arr[i])

\* the alternatives that line 125 evaluates: every runs up to the first item
\* without a match, some runs up to the first match
AlternativeProbes(st, alts, arr) ==
  {Probe("alternative", alts[j], arr[i], FreshIsValid(alts[j], arr[i]), Snapshot(st), Snapshot(st)) :
     <<i, j>> \in {ij \in (1..Len(arr)) \X (1..Len(alts)) :
                     /\ \A i0 \in 1..(ij[1] - 1) : someAlternative(alts, arr[i0])
                     /\ \A j0 \in 1..(ij[2] - 1) : ~FreshIsValid(alts[j0], arr[ij[1]])}}

\* the predicate of lines 119-127; items is [form, list]: form "schema" with
\* list = <<p>>, or form "alternatives" with list the schemas of the collection
itemsPredicate(st, it, arr) ==
  IF it.form = "schema" /\ HasType(it.list[1])
  THEN itemsEvery(st, it.list[1], arr, 1)
  ELSE IF it.form = "schema"
  THEN \* a schema object without type is taken for a collection whose members
       \* are the values of its keywords; the typeless schemas given as items
       \* here have only anyOf, oneOf and nullable, and a list or a boolean
       \* taken for a schema has no type and no nullable (lines 186, 189)
       [st |-> st, ok |-> Len(arr) = 0]
  ELSE [st |-> Observe(st, AlternativeProbes(st, it.list, arr)),
        ok |-> everyItemSomeAlternative(it.list, arr)]

isValidArray(st, sch, arr) ==
  LET s1 == isValidType(st, sch.type, "array")
      s2 == testProperty(s1, sch.minItems, sch.minItems # <<>> /\ sch.minItems[1] <= Len(arr.a),
                         "Items count less than can be")
      s3 == testProperty(s2, sch.maxItems, sch.maxItems # <<>> /\ sch.maxItems[1] >= Len(arr.a),
                         "Items count more than can be")
      s4 == testProperty(s3, sch.contains,
                         sch.contains # <<>> /\ \E i \in 1..Len(arr.a) : compareValues(arr.a[i], sch.contains[1]),
                         "Must contain a value, but does not")
      s5 == testProperty(s4, sch.enum,
                         sch.enum # <<>> /\ \E i \in 1..Len(sch.enum[1]) : compareValues(sch.enum[1][i], arr),
                         "The enum does not support one of array elements")
      s6 == testProperty(s5, sch.uniqueItems, isUniqueArray(arr.a),
                         "Elements of array not unique")
  IN IF sch.items = <<>> THEN s6
     ELSE LET r == itemsPredicate(s6, sch.items[1], arr.a)
          IN IF ~r.ok THEN fail(r.st, NoError) ELSE r.st

\* schemes.every(propName => this.isValid(properties[propName], obj[propName]))
propertiesEvery(st, properties, obj, i) ==
  IF i > Len(properties) THEN [st |-> st, ok |-> TRUE]
  ELSE LET sub == properties[i].val
           v == Prop(obj, properties[i].key)
           s1 == isValid(st, sub, v)
           s2 == Observe(s1, {Probe("property", sub, v, ~s1.failed, Snapshot(st), Snapshot(s1))})
       IN IF s1.failed THEN [st |-> s2, ok |-> FALSE]
          ELSE propertiesEvery(s2, properties, obj, i + 1)

\* the predicate of lines 135-149 without the test of line 141
propertiesPredicate_anyKeys(st, sch, obj) ==
  LET r == propertiesEvery(st, sch.properties[1], obj, 1)
  IN IF r.ok THEN r.st ELSE fail(r.st, "Type is incorrect")

\* the predicate of lines 135-149, and the fail of testProperty after it
propertiesPredicate(st, sch, obj) ==
  LET r == propertiesEvery(st, sch.properties[1], obj, 1)
  IN IF r.ok
     THEN IF Flag(sch.additionalProperties) \/ Len(sch.properties[1]) = Len(obj.o)
          THEN r.st
          ELSE fail(fail(r.st, "An object cant have additional properties"), "Type is incorrect")
     ELSE fail(r.st, "Type is incorrect")

isValidObject(st, sch, obj) ==
  LET s1 == isValidType(st, sch.type, "object")
      s2 == testProperty(s1, sch.minProperties,
                         sch.minProperties # <<>> /\ sch.minProperties[1] <= Len(obj.o),
                         "Too few properties in object")
      s3 == testProperty(s2, sch.maxProperties,
                         sch.maxProperties # <<>> /\ sch.maxProperties[1] >= Len(obj.o),
                         "Too many properties in object")
      s4 == testProperty(s3, sch.required,
                         sch.required # <<>> /\ \A i \in 1..Len(sch.required[1]) : Truthy(Prop(obj, sch.required[1][i])),
                         "Property required, but value is undefined")
  IN IF sch.properties = <<>> THEN s4 ELSE propertiesPredicate(s4, sch, obj)

\* this._handlers.get(type), applied; Number(oNum), Boolean(oNum) and
\* String(oNum) of lines 15-17 leave a primitive as it is
handler(st, sch, data) ==
  CASE data.k = "object" -> isValidObject(st, sch, data)
    [] data.k = "array" -> isValidArray(st, sch, data)
    [] data.k = "number" -> isValidNumber(st, sch, data)
    [] data.k = "boolean" -> isValidBoolean(st, sch, data)
    [] OTHER -> isValidString(st, sch, data)

\* lines 169-175 without the test of lines 171-175
validateVariants_firstMatch(st, sch, schemaVariants, data) ==
  IF Len(filterSchemas(schemaVariants, data)) = 0
  THEN fail(st, "None schemas are valid")
  ELSE st

\* lines 169-175 with `else if (schema.oneOf)` as a plain `else`
validateVariants_alwaysOne(st, sch, schemaVariants, data) ==
  LET filtered == filterSchemas(schemaVariants, data)
  IN IF Len(filtered) = 0 THEN fail(st, "None schemas are valid")
     ELSE IF Len(filtered) # 1
          THEN fail(st, "More than one shema valid for this data")
          ELSE st

\* lines 167-175: the branch of isValid for a schema with schemaVariants
validateVariants(st, sch, schemaVariants, data) ==
  LET filtered == filterSchemas(schemaVariants, data)
      s1 == Observe(st, {Probe("branch", schemaVariants[i], data,
                               FreshIsValid(schemaVariants[i], data),
                               Snapshot(st), Snapshot(st)) :
                           i \in 1..Len(schemaVariants)})
  IN IF Len(filtered) = 0 THEN fail(s1, "None schemas are valid")
     ELSE IF sch.oneOf # <<>> /\ Len(filtered) # 1
          THEN fail(s1, "More than one shema valid for this data")
          ELSE s1

\* lines 176-190 with line 188 testing schema.nullable instead of !schema.nullable
validateValue_nullableInverted(st, sch, data) ==
  IF data.k # "null"
  THEN IF data.k \in HandledKinds /\ sch.type # <<>> /\ sch.type[1] \in KnownTypes
       THEN handler(st, sch, data)
       ELSE fail(st, "Unknown type")
  ELSE IF Flag(sch.nullable)
       THEN fail(st, "Value is null, but nullable false")
       ELSE st

\* lines 176-190: the branches of isValid for a schema without schemaVariants
validateValue(st, sch, data) ==
  IF data.k # "null"
  THEN IF data.k \in HandledKinds /\ sch.type # <<>> /\ sch.type[1] \in KnownTypes
       THEN handler(st, sch, data)
       ELSE fail(st, "Unknown type")
  ELSE IF ~Flag(sch.nullable)
       THEN fail(st, "Value is null, but nullable false")
       ELSE st

\* isValid on the validator in state st; it returns ~isValid(...).failed
isValid(st, sch, data) ==
  LET schemaVariants == IF sch.anyOf # <<>> THEN sch.anyOf ELSE sch.oneOf
  IN IF schemaVariants # <<>>
     THEN validateVariants(st, sch, schemaVariants[1], data)
     ELSE validateValue(st, sch, data)

(***************************************************************************)
(* The schemas and values the calls are made with                          *)
(***************************************************************************)
Typed(t) == [Empty EXCEPT !.type = <<t>>]

Chars(str) == Str(str)
EmailString == Chars(<<"a", "@", "b">>)
DateString == Chars(<<"2", "0", "2", "0", "-", "0", "1", "-", "3", "1">>)

Numbers == {Num(n) : n \in 0..MaxNum}

Strings == {Chars(<<>>), Chars(<<"a">>), Chars(<<"a", "b">>), EmailString, DateString}

\* every array of the numbers 1 and 2 of at most MaxItems elements
NumberArrays ==
  {Arr(a) : a \in UNION {[1..n -> {Num(1), Num(2)}] : n \in 0..MaxItems}}

Arrays ==
  NumberArrays \cup
  {Arr(<<Chars(<<"a">>)>>), Arr(<<Num(1), Chars(<<"a">>)>>), Arr(<<Null>>),
   Arr(<<Obj(<<P("a", Num(1))>>), Obj(<<P("a", Num(1))>>)>>),
   Arr(<<Arr(<<Num(1)>>), Arr(<<Num(2)>>)>>)}

Objects ==
  {Obj(<<>>), Obj(<<P("a", Num(1))>>), Obj(<<P("a", Num(0))>>),
   Obj(<<P("a", Chars(<<>>))>>), Obj(<<P("a", Chars(<<"a">>))>>),
   Obj(<<P("b", Chars(<<"a">>))>>),
   Obj(<<P("a", Num(1)), P("b", Chars(<<"a">>))>>),
   Obj(<<P("a", Num(1)), P("b", Num(2))>>),
   Obj(<<P("a", Num(1)), P("b", Chars(<<"a">>)), P("c", Bool(TRUE))>>)}

Values == Numbers \cup Strings \cup {Bool(TRUE), Bool(FALSE), Null, Undefined}
          \cup Arrays \cup Objects

NumberSchema == Typed("number")
StringSchema == Typed("string")
AtLeast2 == [Typed("number") EXCEPT !.minimum = <<2>>]
Items(p) == [form |-> "schema", list |-> <<p>>]
Alternatives(list) == [form |-> "alternatives", list |-> list]

\* the keywords of the number checker
NumberBodies ==
  {[Empty EXCEPT !.minimum = <<1>>], [Empty EXCEPT !.maximum = <<1>>],
   [Empty EXCEPT !.minimum = <<2>>, !.maximum = <<0>>],
   [Empty EXCEPT !.enum = <<<<Num(0), Num(2)>>>>]}

\* the keywords of the string checker
StringBodies ==
  {[Empty EXCEPT !.minLength = <<1>>], [Empty EXCEPT !.maxLength = <<1>>],
   [Empty EXCEPT !.pattern = <<"^a">>], [Empty EXCEPT !.pattern = <<"b$">>],
   [Empty EXCEPT !.enum = <<<<Chars(<<"a">>), Chars(<<>>)>>>>],
   [Empty EXCEPT !.format = <<"email">>], [Empty EXCEPT !.format = <<"date">>],
   [Empty EXCEPT !.minLength = <<3>>, !.pattern = <<"^a">>, !.format = <<"email">>]}

\* the keywords of the array checker
ArrayBodies ==
  {[Empty EXCEPT !.minItems = <<2>>], [Empty EXCEPT !.maxItems = <<1>>],
   [Empty EXCEPT !.contains = <<Num(1)>>],
   [Empty EXCEPT !.contains = <<Obj(<<P("a", Num(1))>>)>>],
   [Empty EXCEPT !.enum = <<<<Arr(<<Num(1), Num(2)>>), Arr(<<>>)>>>>],
   [Empty EXCEPT !.uniqueItems = <<TRUE>>], [Empty EXCEPT !.uniqueItems = <<FALSE>>],
   [Empty EXCEPT !.items = <<Items(NumberSchema)>>],
   [Empty EXCEPT !.items = <<Items(AtLeast2)>>],
   [Empty EXCEPT !.items = <<Items(StringSchema)>>],
   [Empty EXCEPT !.items = <<Items([Typed("array") EXCEPT !.items = <<Items(AtLeast2)>>])>>],
   [Empty EXCEPT !.items = <<Items([Typed("object") EXCEPT !.properties = <<<<P("a", NumberSchema)>>>>])>>],
   [Empty EXCEPT !.items = <<Items([Empty EXCEPT !.anyOf = <<<<NumberSchema>>>>])>>],
   [Empty EXCEPT !.items = <<Alternatives(<<AtLeast2, StringSchema>>)>>],
   [Empty EXCEPT !.items = <<Alternatives(<<>>)>>],
   [Empty EXCEPT !.minItems = <<2>>, !.items = <<Items(NumberSchema)>>],
   [Empty EXCEPT !.maxItems = <<1>>, !.uniqueItems = <<TRUE>>, !.contains = <<Num(2)>>]}

PropertiesBodies ==
  {[Empty EXCEPT !.properties = <<<<>>>>],
   [Empty EXCEPT !.properties = <<<<P("a", NumberSchema)>>>>],
   [Empty EXCEPT !.properties = <<<<P("a", NumberSchema), P("b", StringSchema)>>>>],
   [Empty EXCEPT !.properties = <<<<P("a", AtLeast2), P("b", StringSchema)>>>>],
   [Empty EXCEPT !.required = <<<<"a">>>>, !.properties = <<<<P("a", StringSchema)>>>>],
   [Empty EXCEPT !.minProperties = <<2>>, !.properties = <<<<P("a", NumberSchema)>>>>],
   Empty}

\* the keywords of the object checker
ObjectBodies ==
  {[Empty EXCEPT !.minProperties = <<1>>], [Empty EXCEPT !.maxProperties = <<1>>],
   [Empty EXCEPT !.required = <<<<"a">>>>], [Empty EXCEPT !.required = <<<<"a", "b">>>>]}
  \cup {[b EXCEPT !.additionalProperties = ap] : b \in PropertiesBodies, ap \in {<<>>, <<TRUE>>, <<FALSE>>}}

Bodies == {Empty} \cup NumberBodies \cup StringBodies \cup ArrayBodies \cup ObjectBodies

\* a type outside this._known_types, and no type at all, are among the types
Types == {<<t>> : t \in KnownTypes \cup {"integer"}} \cup {<<>>}

PlainSchemas == {[b EXCEPT !.type = t] : b \in Bodies, t \in Types}

NullableSchemas ==
  {[b EXCEPT !.type = <<t>>, !.nullable = <<n>>] :
     b \in {Empty, [Empty EXCEPT !.minimum = <<1>>], [Empty EXCEPT !.minItems = <<2>>]},
     t \in {"number", "array"}, n \in BOOLEAN}

\* the schemas that are branches of the combinators
Branches ==
  {NumberSchema, AtLeast2, StringSchema, [NumberSchema EXCEPT !.nullable = <<TRUE>>],
   [Typed("array") EXCEPT !.items = <<Items(NumberSchema)>>]}

BranchLists == {<<>>} \cup {<<x>> : x \in Branches} \cup {<<x, y>> : x \in Branches, y \in Branches}

ShortLists == {<<>>, <<NumberSchema>>, <<AtLeast2>>, <<StringSchema>>,
               <<NumberSchema, AtLeast2>>, <<NumberSchema, StringSchema>>}

CombinatorSchemas ==
  {[Empty EXCEPT !.anyOf = <<l>>] : l \in BranchLists}
  \cup {[Empty EXCEPT !.oneOf = <<l>>] : l \in BranchLists}
  \cup {[Empty EXCEPT !.anyOf = <<l1>>, !.oneOf = <<l2>>] : l1 \in ShortLists, l2 \in ShortLists}
  \cup {[Empty EXCEPT !.type = <<"string">>, !.nullable = n, !.anyOf = a, !.oneOf = o] :
          n \in {<<TRUE>>, <<FALSE>>},
          a \in {<<>>, <<<<NumberSchema>>>>, <<<<[NumberSchema EXCEPT !.nullable = <<TRUE>>]>>>>},
          o \in {<<>>, <<<<NumberSchema, AtLeast2>>>>, <<<<[NumberSchema EXCEPT !.nullable = <<TRUE>>]>>>>}}
  \cup {[Empty EXCEPT !.oneOf = <<<<[Empty EXCEPT !.anyOf = <<<<NumberSchema, StringSchema>>>>], AtLeast2>>>>]}
  \cup {[Typed("object") EXCEPT !.properties = <<<<P("a", NumberSchema)>>>>,
                                !.additionalProperties = ap,
                                !.anyOf = <<<<Typed("object"), NumberSchema>>>>] :
          ap \in {<<>>, <<FALSE>>}}

Schemas == PlainSchemas \cup NullableSchemas \cup CombinatorSchemas

\* the schemas and values of the calls that share one validator object
SessionSchemas ==
  {NumberSchema, AtLeast2, [NumberSchema EXCEPT !.nullable = <<TRUE>>],
   [Typed("array") EXCEPT !.minItems = <<2>>, !.items = <<Items(NumberSchema)>>],
   [Typed("object") EXCEPT !.properties = <<<<P("a", AtLeast2)>>>>],
   [Empty EXCEPT !.oneOf = <<<<NumberSchema, AtLeast2>>>>],
   [Empty EXCEPT !.anyOf = <<<<NumberSchema, StringSchema>>>>],
   [Typed("array") EXCEPT !.items = <<Alternatives(<<AtLeast2>>)>>]}

SessionValues ==
  {Num(1), Num(2), Chars(<<"a">>), Null, Arr(<<Num(1)>>), Arr(<<Num(1), Num(2)>>),
   Obj(<<P("a", Num(2))>>), Obj(<<P("a", Num(1)), P("b", Num(2))>>)}

(***************************************************************************)
(* The state machine                                                       *)
(***************************************************************************)
\* the validator object as the record the operators work on
This == [failed |-> _failed, errors |-> _errors, probes |-> {}]

\* constructor, lines 2-6 (caller side: nothing called yet)
Init ==
  /\ _failed = FALSE
  /\ _errors = <<>>
  /\ schema = Empty
  /\ dataToValidate = Undefined
  /\ returned = TRUE
  /\ entry = [failed |-> FALSE, errors |-> <<>>]
  /\ probes = {}
  /\ nCalls = 0

\* the effect of one isValid(S, V) on the validator in state st0
Run(st0, S, V) ==
  \E st \in {isValid(st0, S, V)} :
     /\ _failed' = st.failed
     /\ _errors' = st.errors
     /\ returned' = ~st.failed
     /\ probes' = st.probes
     /\ entry' = [failed |-> st0.failed, errors |-> st0.errors]
     /\ schema' = S
     /\ dataToValidate' = V

\* the first isValid call on a validator object: new Validator().isValid(S, V)
Validate ==
  /\ nCalls = 0
  /\ \E S \in Schemas, V \in Values : Run(This, S, V)
  /\ nCalls' = 1

\* this.isValid(S, V) on the validator object at hand, used or not
IsValidCall ==
  /\ nCalls < MaxCalls
  /\ \E S \in SessionSchemas, V \in SessionValues : Run(This, S, V)
  /\ nCalls' = nCalls + 1

\* new Validator(): the caller replaces its validator object
Construct ==
  /\ _failed' = FALSE
  /\ _errors' = <<>>
  /\ entry' = [failed |-> FALSE, errors |-> <<>>]
  /\ probes' = {}
  /\ nCalls' = 0
  /\ UNCHANGED <<schema, dataToValidate, returned>>

\* every validation on a validator of its own
Next == Validate

Spec == Init /\ [][Next]_vars

\* up to MaxCalls validations on one validator object
NextSession ==
  \/ Construct
  \/ IsValidCall

SpecSession == Init /\ [][NextSession]_vars

TypeOK ==
  /\ _failed \in BOOLEAN
  /\ returned \in BOOLEAN
  /\ nCalls \in 0..MaxCalls

(***************************************************************************)
(* Vocabulary of the properties                                            *)
(***************************************************************************)
\* an isValid call has been made on the validator object at hand
Called == nCalls > 0

NoCombinator(sch) == sch.anyOf = <<>> /\ sch.oneOf = <<>>

\* the schemas of a list that validate v, each on a validator of its own
Matching(list, v) == {i \in 1..Len(list) : FreshIsValid(list[i], v)}

\* the errors the last call pushed
NewErrors == SubSeq(_errors, Len(entry.errors) + 1, Len(_errors))

Count(seq, m) == Cardinality({i \in 1..Len(seq) : seq[i] = m})

Range(seq) == {seq[i] : i \in 1..Len(seq)}

OwnKeys(obj) == {obj.o[i].key : i \in 1..Len(obj.o)}

DeclaredKeys(sch) ==
  IF sch.properties = <<>> THEN {}
  ELSE {sch.properties[1][i].key : i \in 1..Len(sch.properties[1])}

\* the declared properties the object has all satisfy their schemas
PresentPropertiesValid(sch, obj) ==
  \A i \in 1..Len(sch.properties[1]) :
    sch.properties[1][i].key \in OwnKeys(obj)
      => FreshIsValid(sch.properties[1][i].val, Prop(obj, sch.properties[1][i].key))

\* minProperties, maxProperties and required are satisfied
CountsAndRequiredHold(sch, obj) ==
  /\ sch.minProperties # <<>> => sch.minProperties[1] <= Len(obj.o)
  /\ sch.maxProperties # <<>> => sch.maxProperties[1] >= Len(obj.o)
  /\ sch.required # <<>> => \A i \in 1..Len(sch.required[1]) : Truthy(Prop(obj, sch.required[1][i]))

HasDuplicate(arr) ==
  \E i \in 1..Len(arr) : \E j \in 1..Len(arr) : i # j /\ compareValues(arr[i], arr[j])

(***************************************************************************)
(* C1  A schema with a oneOf field validates V exactly when one schema of *)
(* the oneOf list validates V on a validator of its own; no match, and    *)
(* two or more matches, both make isValid return false.                   *)
(***************************************************************************)
OneOfExactlyOne ==
  (Called /\ schema.oneOf # <<>>)
    => (returned <=> Cardinality(Matching(schema.oneOf[1], dataToValidate)) = 1)

\* C1 as amended: a schema with a oneOf field and no anyOf field validates V
\* exactly when one schema of the oneOf list validates V on a validator of
\* its own
OneOfAloneExactlyOne ==
  (Called /\ schema.oneOf # <<>> /\ schema.anyOf = <<>>)
    => (returned <=> Cardinality(Matching(schema.oneOf[1], dataToValidate)) = 1)

\* two branches of a oneOf match and the value is rejected as ambiguous
OneOfTwoMatchesRejected ==
  /\ Called
  /\ schema.oneOf # <<>>
  /\ schema.anyOf = <<>>
  /\ Cardinality(Matching(schema.oneOf[1], dataToValidate)) = 2
  /\ ~returned
  /\ _errors = <<"More than one shema valid for this data">>

(***************************************************************************)
(* C2  A schema with an anyOf field validates V exactly when at least one *)
(* schema of the anyOf list validates V, two or more matches included.    *)
(***************************************************************************)
AnyOfAtLeastOne ==
  (Called /\ schema.anyOf # <<>>)
    => (returned <=> Matching(schema.anyOf[1], dataToValidate) # {})

\* C2 as amended: a schema with an anyOf field and no oneOf field validates V
\* exactly when at least one schema of the anyOf list validates V
AnyOfAloneAtLeastOne ==
  (Called /\ schema.anyOf # <<>> /\ schema.oneOf = <<>>)
    => (returned <=> Matching(schema.anyOf[1], dataToValidate) # {})

\* two branches of an anyOf match and the value is accepted
AnyOfTwoMatchesAccepted ==
  /\ Called
  /\ schema.anyOf # <<>>
  /\ schema.oneOf = <<>>
  /\ Cardinality(Matching(schema.anyOf[1], dataToValidate)) = 2
  /\ returned
  /\ _errors = <<>>

(***************************************************************************)
(* C3  No state leaks between calls: isValid(S, V) after earlier calls on *)
(* the same validator returns what it returns on a new validator, and     *)
(* leaves the same set of errors.                                         *)
(***************************************************************************)
NoStateLeak ==
  Called =>
    /\ returned = FreshIsValid(schema, dataToValidate)
    /\ Range(_errors) = Range(isValid(NewValidator, schema, dataToValidate).errors)

(***************************************************************************)
(* C4  Every nested evaluation (a combinator branch, an array item, an    *)
(* object property) is isolated from its parent: it returns what a new    *)
(* validator returns for the same sub-schema and sub-value, and it leaves *)
(* the parent's failure flag and error list as they were.                 *)
(***************************************************************************)
NestedIsolated ==
  \A p \in probes :
    /\ p.ok = FreshIsValid(p.schema, p.value)
    /\ p.post = p.pre

(***************************************************************************)
(* C5  Only the declared properties the object has are validated: an      *)
(* object lacking a declared property that is not required, whose present *)
(* properties satisfy their schemas, is valid when additionalProperties   *)
(* is truthy and nothing else is violated.                                *)
(***************************************************************************)
MissingDeclaredPropertyAllowed ==
  ( /\ Called
    /\ NoCombinator(schema)
    /\ schema.type = <<"object">>
    /\ dataToValidate.k = "object"
    /\ schema.properties # <<>>
    /\ Flag(schema.additionalProperties)
    /\ DeclaredKeys(schema) \ OwnKeys(dataToValidate) # {}
    /\ PresentPropertiesValid(schema, dataToValidate)
    /\ CountsAndRequiredHold(schema, dataToValidate) )
    => returned

(***************************************************************************)
(* C6  uniqueItems is enforced only when truthy: with uniqueItems true an *)
(* array holding two structurally equal elements fails the uniqueness     *)
(* check; with uniqueItems false or absent no array fails it.             *)
(***************************************************************************)
UniqueItemsOnlyWhenTruthy ==
  ( /\ Called
    /\ NoCombinator(schema)
    /\ schema.type = <<"array">>
    /\ dataToValidate.k = "array" )
    => /\ (Flag(schema.uniqueItems) /\ HasDuplicate(dataToValidate.a))
            => (~returned /\ "Elements of array not unique" \in Range(NewErrors))
       /\ ~Flag(schema.uniqueItems)
            => "Elements of array not unique" \notin Range(NewErrors)

(***************************************************************************)
(* C7  For the null value: a schema whose nullable is true validates it   *)
(* whatever its other fields are (type, constraints, oneOf/anyOf); a      *)
(* schema without combinator whose nullable is not true rejects it.       *)
(***************************************************************************)
NullableDecidesNull ==
  (Called /\ dataToValidate = Null)
    => /\ Flag(schema.nullable) => returned
       /\ (NoCombinator(schema) /\ ~Flag(schema.nullable)) => ~returned

\* C7 as amended: for the null value and a schema without combinator,
\* validation succeeds exactly when nullable is true, whatever the type and
\* the constraints of the schema are
NullableDecidesNullWithoutCombinator ==
  (Called /\ dataToValidate = Null /\ NoCombinator(schema))
    => (returned <=> Flag(schema.nullable))

\* null is accepted by a nullable schema whose type and minimum do not fit it
NullAcceptedDespiteConstraints ==
  /\ Called
  /\ dataToValidate = Null
  /\ NoCombinator(schema)
  /\ Flag(schema.nullable)
  /\ schema.type = <<"number">>
  /\ schema.minimum # <<>>
  /\ returned
  /\ _errors = <<>>

(***************************************************************************)
(* C8  Over any sequence of isValid calls on one validator, nested calls  *)
(* on it included: a non-empty error list implies the failure flag, the   *)
(* flag once true never becomes false, and isValid returns true exactly   *)
(* when the flag is false at return.                                      *)
(***************************************************************************)
FlagCoversErrors ==
  /\ _errors # <<>> => _failed
  /\ Called => (returned <=> ~_failed)
  /\ entry.failed => _failed
  /\ \A p \in probes :
       p.site \in {"item", "property"}
         => /\ p.pre.failed => p.post.failed
            /\ p.post.nerrors > 0 => p.post.failed
            /\ p.ok <=> ~p.post.failed

\* C8: the flag covers the errors and the return value in every state, and
\* no call on the validator at hand turns a true flag false
SessionStaysFailed ==
  /\ []FlagCoversErrors
  /\ [][(_failed /\ nCalls' > nCalls) => _failed']_vars

\* a second call that a new validator would accept, on a validator that failed
FailedSessionReused ==
  /\ nCalls >= 2
  /\ entry.failed
  /\ entry.errors # <<>>
  /\ _failed
  /\ ~returned
  /\ FreshIsValid(schema, dataToValidate)

(***************************************************************************)
(* C9  With additionalProperties falsy, whether or not the schema has a   *)
(* properties field, an object with an own key that properties does not   *)
(* list fails; with additionalProperties truthy such keys cause no        *)
(* failure.                                                               *)
(***************************************************************************)
UndeclaredKeysTolerated(sch, obj) ==
  /\ Flag(sch.additionalProperties)
       => "An object cant have additional properties" \notin Range(NewErrors)
  /\ ( /\ Flag(sch.additionalProperties)
       /\ sch.type = <<"object">>
       /\ sch.properties # <<>>
       /\ DeclaredKeys(sch) \subseteq OwnKeys(obj)
       /\ PresentPropertiesValid(sch, obj)
       /\ CountsAndRequiredHold(sch, obj) )
       => returned

\* C9 as stated, for every schema of type object
AdditionalPropertiesForbidden ==
  (Called /\ schema.type = <<"object">> /\ dataToValidate.k = "object")
    => /\ ( /\ ~Flag(schema.additionalProperties)
            /\ OwnKeys(dataToValidate) \ DeclaredKeys(schema) # {} )
            => ~returned
       /\ UndeclaredKeysTolerated(schema, dataToValidate)

\* C9 as amended: for a schema without oneOf/anyOf that has a properties
\* field and a falsy additionalProperties, an object with an own key that
\* properties does not list fails; with additionalProperties truthy such keys
\* cause no failure
AdditionalPropertiesForbiddenWithProperties ==
  (Called /\ NoCombinator(schema) /\ dataToValidate.k = "object")
    => /\ ( /\ schema.properties # <<>>
            /\ ~Flag(schema.additionalProperties)
            /\ OwnKeys(dataToValidate) \ DeclaredKeys(schema) # {} )
            => ~returned
       /\ UndeclaredKeysTolerated(schema, dataToValidate)

\* an object whose declared properties are all valid fails for its extra key
ExtraKeyRejected ==
  /\ Called
  /\ schema.type = <<"object">>
  /\ NoCombinator(schema)
  /\ dataToValidate.k = "object"
  /\ schema.properties # <<>>
  /\ ~Flag(schema.additionalProperties)
  /\ DeclaredKeys(schema) # {}
  /\ DeclaredKeys(schema) \subseteq OwnKeys(dataToValidate)
  /\ OwnKeys(dataToValidate) \ DeclaredKeys(schema) # {}
  /\ PresentPropertiesValid(schema, dataToValidate)
  /\ ~returned
  /\ NewErrors = <<"An object cant have additional properties", "Type is incorrect">>

(***************************************************************************)
(* C10  A non-null value whose runtime kind differs from a known          *)
(* schema.type fails with the type error and without short-circuit: each  *)
(* constraint of the runtime kind's checker that the schema has and the   *)
(* value violates records its own failure besides the type error.         *)
(* (The failure of items carries no message, line 127; the failure of     *)
(* properties carries the message of the type error, line 149.)           *)
(***************************************************************************)
PropertiesViolated(sch, obj) ==
  /\ sch.properties # <<>>
  /\ \/ ~PresentPropertiesValid(sch, obj)
     \/ ~Flag(sch.additionalProperties) /\ OwnKeys(obj) \ DeclaredKeys(sch) # {}

\* the string ends with four digits, two digits and two digits, hyphenated
EndsWithDate(str) ==
  \E n \in 0..Len(str) :
    /\ Len(str) = n + 10
    /\ \A i \in 1..10 : IF i \in {5, 8} THEN str[n + i] = "-" ELSE str[n + i] \in Digits

\* the messages of the violated constraints, "Type is incorrect" excepted
ViolatedMessages(sch, v) ==
  CASE v.k = "number" ->
         {m \in {"Value is less than it can be"} : sch.minimum # <<>> /\ v.n < sch.minimum[1]}
         \cup {m \in {"Value is greater than it can be"} : sch.maximum # <<>> /\ v.n > sch.maximum[1]}
         \cup {m \in {"The enum does not support value"} : sch.enum # <<>> /\ v \notin Range(sch.enum[1])}
    [] v.k = "string" ->
         {m \in {"Too short string"} : sch.minLength # <<>> /\ Len(v.s) < sch.minLength[1]}
         \cup {m \in {"Too long string"} : sch.maxLength # <<>> /\ Len(v.s) > sch.maxLength[1]}
         \cup {m \in {"String does not match pattern"} :
                 \/ sch.pattern = <<"^a">> /\ (v.s = <<>> \/ Head(v.s) # "a")
                 \/ sch.pattern = <<"b$">> /\ (v.s = <<>> \/ v.s[Len(v.s)] # "b")}
         \cup {m \in {"The enum does not support value"} : sch.enum # <<>> /\ v \notin Range(sch.enum[1])}
         \cup {m \in {"Format of string is not valid"} :
                 \/ sch.format = <<"email">> /\ "@" \notin Range(v.s)
                 \/ sch.format = <<"date">> /\ ~EndsWithDate(v.s)}
    [] v.k = "array" ->
         {m \in {"Items count less than can be"} : sch.minItems # <<>> /\ Len(v.a) < sch.minItems[1]}
         \cup {m \in {"Items count more than can be"} : sch.maxItems # <<>> /\ Len(v.a) > sch.maxItems[1]}
         \cup {m \in {"Must contain a value, but does not"} :
                 sch.contains # <<>> /\ sch.contains[1] \notin Range(v.a)}
         \cup {m \in {"The enum does not support one of array elements"} :
                 sch.enum # <<>> /\ v \notin Range(sch.enum[1])}
         \cup {m \in {"Elements of array not unique"} :
                 Flag(sch.uniqueItems) /\ Cardinality(Range(v.a)) < Len(v.a)}
    [] v.k = "object" ->
         {m \in {"Too few properties in object"} : sch.minProperties # <<>> /\ Len(v.o) < sch.minProperties[1]}
         \cup {m \in {"Too many properties in object"} : sch.maxProperties # <<>> /\ Len(v.o) > sch.maxProperties[1]}
         \cup {m \in {"Property required, but value is undefined"} :
                 sch.required # <<>> /\ \E i \in 1..Len(sch.required[1]) : ~Truthy(Prop(v, sch.required[1][i]))}
    [] OTHER -> {}

\* the runtime kind has a checker and differs from the known type of the schema
KindMismatch ==
  /\ Called
  /\ dataToValidate.k \in HandledKinds
  /\ schema.type # <<>>
  /\ schema.type[1] \in KnownTypes
  /\ schema.type[1] # dataToValidate.k

\* the type error, and the failure of every violated constraint beside it
EveryViolationRecorded ==
  /\ ~returned
  /\ \A m \in ViolatedMessages(schema, dataToValidate) : m \in Range(NewErrors)
  /\ Count(NewErrors, "Type is incorrect")
       >= (IF dataToValidate.k = "object" /\ PropertiesViolated(schema, dataToValidate)
           THEN 2 ELSE 1)

\* C10 as stated, for every schema with a known type
MismatchDoesNotShortCircuit == KindMismatch => EveryViolationRecorded

\* C10 as amended: the same for a schema without oneOf/anyOf (a schema with
\* a combinator never reaches the checker of the runtime kind)
MismatchDoesNotShortCircuitWithoutCombinator ==
  (KindMismatch /\ NoCombinator(schema)) => EveryViolationRecorded

\* a number checked against a string schema breaks minimum and maximum too
MismatchWithTwoViolations ==
  /\ KindMismatch
  /\ NoCombinator(schema)
  /\ dataToValidate.k = "number"
  /\ schema.type = <<"string">>
  /\ NewErrors = <<"Type is incorrect", "Value is less than it can be",
                   "Value is greater than it can be">>

====
